---------------------------- MODULE Spec2Model ----------------------------
(***************************************************************************)
(* A model of the go-pushbullet client (src/pushbullet.go).                *)
(*                                                                         *)
(* Strings are sequences of one-character strings, so that escaping,       *)
(* base64 and form encoding are computed character by character as the     *)
(* library routines the client calls compute them.  A url.Values is a      *)
(* record [nil, m]: nil tells the nil map from an allocated one, m maps a   *)
(* key to its sequence of values.  Maps handed to Push by a caller live in  *)
(* heap, because Push writes into the caller's map.                        *)
(***************************************************************************)
EXTENDS Integers, Sequences, FiniteSets, TLC

VARIABLES
  key,    \* Client.Key
  heap,   \* the url.Values maps the callers hold, by reference
  last,   \* what the latest completed call sent, did and returned
  pc,     \* concurrent callers: each caller's position in its call
  loc     \* concurrent callers: each caller's arguments and locals

vars == <<key, heap, last, pc, loc>>

(***************************************************************************)
(* Bounds of the model.                                                    *)
(***************************************************************************)
\* longest owned / shared device list a response carries
MaxDevs == 2

(***************************************************************************)
(* Characters and strings.                                                 *)
(***************************************************************************)
\* printable ASCII, from code 32 (space) to 126 (~); code 96 is spelled out,
\* the character itself cannot be written in a string of this notation
Ascii ==
  << " ", "!", "\"", "#", "$", "%", "&", "'", "(", ")", "*", "+", ",", "-", ".", "/",
     "0", "1", "2", "3", "4", "5", "6", "7", "8", "9", ":", ";", "<", "=", ">", "?",
     "@", "A", "B", "C", "D", "E", "F", "G", "H", "I", "J", "K", "L", "M", "N", "O",
     "P", "Q", "R", "S", "T", "U", "V", "W", "X", "Y", "Z", "[", "\\", "]", "^", "_",
     "grave", "a", "b", "c", "d", "e", "f", "g", "h", "i", "j", "k", "l", "m", "n", "o",
     "p", "q", "r", "s", "t", "u", "v", "w", "x", "y", "z", "{", "|", "}", "~" >>

\* the byte value of each character
OrdOf ==
  [c \in {Ascii[i] : i \in 1..Len(Ascii)} |->
     31 + (CHOOSE i \in 1..Len(Ascii) : Ascii[i] = c)]

Ord(c) == OrdOf[c]

HexDigits ==
  << "0", "1", "2", "3", "4", "5", "6", "7", "8", "9", "A", "B", "C", "D", "E", "F" >>

IsAlnum(c) ==
  LET o == Ord(c) IN
    \/ Ord("a") <= o /\ o <= Ord("z")
    \/ Ord("A") <= o /\ o <= Ord("Z")
    \/ Ord("0") <= o /\ o <= Ord("9")

\* byte-wise order of two strings (sort.Strings in Values.Encode)
RECURSIVE StrLess(_, _)
StrLess(s, t) ==
  IF t = <<>> THEN FALSE
  ELSE IF s = <<>> THEN TRUE
  ELSE IF Ord(Head(s)) /= Ord(Head(t)) THEN Ord(Head(s)) < Ord(Head(t))
  ELSE StrLess(Tail(s), Tail(t))

RECURSIVE Concat(_)
Concat(ss) == IF ss = <<>> THEN <<>> ELSE Head(ss) \o Concat(Tail(ss))

(***************************************************************************)
(* net/url escaping, as used by Userinfo.String and Values.Encode.         *)
(***************************************************************************)
\* url.shouldEscape, for the two modes the client reaches
shouldEscape(c, mode) ==
  IF IsAlnum(c) THEN FALSE
  ELSE IF c \in {"-", "_", ".", "~"} THEN FALSE
  ELSE IF c \in {"$", "&", "+", ",", "/", ":", ";", "=", "?", "@"}
       THEN IF mode = "encodeUserPassword"
            THEN c \in {"@", "/", "?", ":"}
            ELSE TRUE
  ELSE TRUE

\* url.escape of one byte
escapeChar(c, mode) ==
  IF ~shouldEscape(c, mode) THEN <<c>>
  ELSE IF c = " " /\ mode = "encodeQueryComponent" THEN <<"+">>
  ELSE <<"%", HexDigits[(Ord(c) \div 16) + 1], HexDigits[(Ord(c) % 16) + 1]>>

\* url.escape
escape(s, mode) == Concat([i \in 1..Len(s) |-> escapeChar(s[i], mode)])

\* QueryEscape that leaves every byte as it is
QueryEscape_Raw(s) == s

\* url.QueryEscape
QueryEscape(s) == escape(s, "encodeQueryComponent")

\* url.UserPassword(username, password).String()
UserinfoString(username, password) ==
  escape(username, "encodeUserPassword")
    \o <<":">> \o escape(password, "encodeUserPassword")

(***************************************************************************)
(* encoding/base64, StdEncoding.                                           *)
(***************************************************************************)
encodeStd ==
  << "A", "B", "C", "D", "E", "F", "G", "H", "I", "J", "K", "L", "M", "N", "O", "P",
     "Q", "R", "S", "T", "U", "V", "W", "X", "Y", "Z", "a", "b", "c", "d", "e", "f",
     "g", "h", "i", "j", "k", "l", "m", "n", "o", "p", "q", "r", "s", "t", "u", "v",
     "w", "x", "y", "z", "0", "1", "2", "3", "4", "5", "6", "7", "8", "9", "+", "/" >>

B64(n) == encodeStd[(n % 64) + 1]

\* base64.StdEncoding.EncodeToString
RECURSIVE EncodeToString(_)
EncodeToString(s) ==
  IF Len(s) = 0 THEN <<>>
  ELSE IF Len(s) = 1 THEN
    LET val == Ord(s[1]) * 65536
    IN  <<B64(val \div 262144), B64(val \div 4096), "=", "=">>
  ELSE IF Len(s) = 2 THEN
    LET val == Ord(s[1]) * 65536 + Ord(s[2]) * 256
    IN  <<B64(val \div 262144), B64(val \div 4096), B64(val \div 64), "=">>
  ELSE
    LET val == Ord(s[1]) * 65536 + Ord(s[2]) * 256 + Ord(s[3])
    IN  <<B64(val \div 262144), B64(val \div 4096), B64(val \div 64), B64(val)>>
          \o EncodeToString(SubSeq(s, 4, Len(s)))

(***************************************************************************)
(* strconv.Itoa.                                                           *)
(***************************************************************************)
RECURSIVE Digits(_)
Digits(n) ==
  IF n < 10 THEN <<HexDigits[n + 1]>>
  ELSE Digits(n \div 10) \o <<HexDigits[(n % 10) + 1]>>

Itoa(n) == IF n < 0 THEN <<"-">> \o Digits(0 - n) ELSE Digits(n)

(***************************************************************************)
(* url.Values.                                                             *)
(***************************************************************************)
\* the nil map
NilValues == [nil |-> TRUE, m |-> <<>>]

\* a map literal url.Values{...}
MakeValues(f) == [nil |-> FALSE, m |-> f]

\* the keys of a map in sort.Strings order
RECURSIVE SortedKeys(_)
SortedKeys(ks) ==
  IF ks = {} THEN <<>>
  ELSE LET k == CHOOSE x \in ks : \A y \in ks \ {x} : StrLess(x, y)
       IN  <<k>> \o SortedKeys(ks \ {k})

\* the "k=v" pairs Values.Encode writes, in the order it writes them
EncodePairs(v) ==
  LET ks == SortedKeys(DOMAIN v.m)
  IN  Concat([i \in 1..Len(ks) |->
                [j \in 1..Len(v.m[ks[i]]) |->
                   QueryEscape(ks[i]) \o <<"=">> \o QueryEscape(v.m[ks[i]][j])]])

RECURSIVE JoinAmp(_)
JoinAmp(ps) ==
  IF ps = <<>> THEN <<>>
  ELSE IF Len(ps) = 1 THEN ps[1]
  ELSE ps[1] \o <<"&">> \o JoinAmp(Tail(ps))

\* url.Values.Encode
Encode(v) == JoinAmp(EncodePairs(v))

(***************************************************************************)
(* The client.                                                             *)
(***************************************************************************)
HOST ==
  << "h", "t", "t", "p", "s", ":", "/", "/", "a", "p", "i", ".", "p", "u", "s", "h",
     "b", "u", "l", "l", "e", "t", ".", "c", "o", "m", "/", "a", "p", "i" >>

allDevicesId == 0

StatusOK == 200

EpDevices == << "/", "d", "e", "v", "i", "c", "e", "s" >>

EpPushes == << "/", "p", "u", "s", "h", "e", "s" >>

KDeviceId == << "d", "e", "v", "i", "c", "e", "_", "i", "d" >>

FormContentType == "application/x-www-form-urlencoded"

IsHex(c) == c \in {HexDigits[i] : i \in 1..16} \cup {"a", "b", "c", "d", "e", "f"}

\* http.NewRequest fails when url.Parse does; of its causes the model keeps the
\* one a printable string can have, a "%" that starts no two-digit hex escape
NewRequestFails(u) ==
  \E i \in 1..Len(u) :
    /\ u[i] = "%"
    /\ ~(i + 2 <= Len(u) /\ IsHex(u[i + 1]) /\ IsHex(u[i + 2]))

NoBody == [present |-> FALSE, bytes |-> <<>>]

\* the value of the Authorization header
AuthHeader(k) ==
  << "B", "a", "s", "i", "c", " " >> \o EncodeToString(UserinfoString(k, <<>>))

\* Client.buildRequest: [panic, req]
buildRequest(k, endpoint, data) ==
  IF NewRequestFails(HOST \o endpoint)
  THEN [panic |-> TRUE, req |-> <<>>]
  ELSE
    LET r0 == [Method |-> "GET", URL |-> HOST \o endpoint,
               Header |-> ("Authorization" :> AuthHeader(k)), Body |-> NoBody]
    IN  [panic |-> FALSE,
         req |-> IF data.nil THEN r0
                 ELSE [r0 EXCEPT
                         !.Method = "POST",
                         !.Header = ("Content-Type" :> FormContentType) @@ r0.Header,
                         !.Body = [present |-> TRUE, bytes |-> Encode(data)]]]

\* url.Values.Set on an allocated map
ValuesSet(data, k, v) ==
  [data EXCEPT !.m = (k :> <<v>>) @@ data.m]

(***************************************************************************)
(* The transport: what c.Client.Do hands back.                             *)
(***************************************************************************)
DevIds == {1, 2}

\* a []*Device, by the devices' ids; nil is the slice of an absent field
NilSlice == [nil |-> TRUE, items |-> <<>>]

Slices ==
  {NilSlice} \cup
  {[nil |-> FALSE, items |-> s] : s \in UNION {[1..n -> DevIds] : n \in 0..MaxDevs}}

\* Go's append(a, b...)
Append2(a, b) ==
  IF a.nil /\ Len(b.items) = 0 THEN NilSlice
  ELSE [nil |-> FALSE, items |-> a.items \o b.items]

\* response bodies: an empty one, one that is no JSON, and the devices documents;
\* eof tells whether a reader that stops after one JSON value has seen the end
BodyEmpty == [kind |-> "empty", devices |-> NilSlice, shared |-> NilSlice, eof |-> TRUE]

BodyGarbage == [kind |-> "garbage", devices |-> NilSlice, shared |-> NilSlice, eof |-> FALSE]

JsonBodies ==
  {[kind |-> "json", devices |-> d, shared |-> s, eof |-> e] :
     d \in Slices, s \in Slices, e \in BOOLEAN}

OneJsonBody ==
  [kind |-> "json", devices |-> [nil |-> FALSE, items |-> <<1>>],
   shared |-> NilSlice, eof |-> FALSE]

StatusCodes == {200, 201, 204, 401, 500}

\* Response.Status
StatusLine(code) ==
  CASE code = 200 -> "200 OK"
    [] code = 201 -> "201 Created"
    [] code = 204 -> "204 No Content"
    [] code = 401 -> "401 Unauthorized"
    [] code = 500 -> "500 Internal Server Error"

TransportErrors == {"dial tcp: connection refused", "net/http: request canceled"}

Failure(e) ==
  [ok |-> FALSE, err |-> e, StatusCode |-> 0, Status |-> "", Body |-> BodyEmpty]

Response(code, body) ==
  [ok |-> TRUE, err |-> "", StatusCode |-> code, Status |-> StatusLine(code),
   Body |-> body]

\* what Do may hand back to Push: the body is never looked at
PushOutcomes ==
  {Failure(e) : e \in TransportErrors} \cup
  {Response(c, b) : c \in StatusCodes, b \in {BodyEmpty, OneJsonBody}}

\* what Do may hand back to Devices
DevicesOutcomes ==
  {Failure(e) : e \in TransportErrors} \cup
  {Response(c, b) : c \in StatusCodes, b \in {BodyEmpty, BodyGarbage, OneJsonBody}} \cup
  {Response(StatusOK, b) : b \in JsonBodies}

(***************************************************************************)
(* Errors and the record of a call.                                        *)
(***************************************************************************)
NoError == [kind |-> "nil", text |-> ""]

\* the error c.Client.Do returned, handed on as it is
TransportError(o) == [kind |-> "transport", text |-> o.err]

\* errors.New(resp.Status)
StatusError(o) == [kind |-> "status", text |-> o.Status]

\* the error of json.Decoder.Decode
DecodeError(o) ==
  [kind |-> "decode",
   text |-> IF o.Body.kind = "empty" THEN "EOF" ELSE "invalid character"]

\* a call that has done nothing yet
Blank ==
  [panic |-> "none", sent |-> <<>>, out |-> Failure(""), got |-> FALSE,
   err |-> NoError, devices |-> NilSlice, closes |-> 0, read |-> "none",
   statusChecked |-> FALSE, decoded |-> FALSE]

\* a Close that is skipped
CloseBody_Skip(c) == c

\* the deferred resp.Body.Close()
CloseBody(c) == [c EXCEPT !.closes = @ + 1]

\* Devices with the shared devices put first
Devices_SharedFirst(k, o) ==
  LET c == [Blank EXCEPT !.sent = <<buildRequest(k, EpDevices, NilValues).req>>,
                         !.out = o]
  IN  IF ~o.ok THEN [c EXCEPT !.err = TransportError(o)]
      ELSE IF o.StatusCode /= StatusOK
        THEN CloseBody([c EXCEPT !.got = TRUE, !.statusChecked = TRUE,
                                 !.err = StatusError(o)])
      ELSE IF o.Body.kind /= "json"
        THEN CloseBody([c EXCEPT !.got = TRUE, !.statusChecked = TRUE,
                                 !.decoded = TRUE,
                                 !.read = IF o.Body.eof THEN "eof" ELSE "partial",
                                 !.err = DecodeError(o)])
      ELSE CloseBody([c EXCEPT !.got = TRUE, !.statusChecked = TRUE,
                               !.decoded = TRUE,
                               !.read = IF o.Body.eof THEN "eof" ELSE "partial",
                               !.devices = Append2(o.Body.shared, o.Body.devices)])

\* Devices that looks at the response although the transport failed, and so
\* hands back an empty list beside the status error
Devices_IgnoresDoError(k, o) ==
  LET c == [Blank EXCEPT !.sent = <<buildRequest(k, EpDevices, NilValues).req>>,
                         !.out = o]
  IN  IF o.StatusCode /= StatusOK
        THEN [c EXCEPT !.statusChecked = TRUE, !.err = StatusError(o),
                       !.devices = [nil |-> FALSE, items |-> <<>>],
                       !.got = o.ok, !.closes = IF o.ok THEN 1 ELSE 0]
      ELSE IF o.Body.kind /= "json"
        THEN CloseBody([c EXCEPT !.got = TRUE, !.statusChecked = TRUE,
                                 !.decoded = TRUE,
                                 !.read = IF o.Body.eof THEN "eof" ELSE "partial",
                                 !.err = DecodeError(o)])
      ELSE CloseBody([c EXCEPT !.got = TRUE, !.statusChecked = TRUE,
                               !.decoded = TRUE,
                               !.read = IF o.Body.eof THEN "eof" ELSE "partial",
                               !.devices = Append2(o.Body.devices, o.Body.shared)])

\* Client.Devices, with o what the transport hands back
Devices(k, o) ==
  LET b == buildRequest(k, EpDevices, NilValues) IN
  IF b.panic THEN [Blank EXCEPT !.panic = "buildRequest"]
  ELSE
    LET c0 == [Blank EXCEPT !.sent = <<b.req>>, !.out = o] IN
    IF ~o.ok THEN [c0 EXCEPT !.err = TransportError(o)]
    ELSE
      LET c1 == [c0 EXCEPT !.got = TRUE, !.statusChecked = TRUE] IN
      IF o.StatusCode /= StatusOK
      THEN CloseBody([c1 EXCEPT !.err = StatusError(o)])
      ELSE
        LET c2 == [c1 EXCEPT !.decoded = TRUE,
                             !.read = IF o.Body.eof THEN "eof" ELSE "partial"]
        IN  IF o.Body.kind /= "json"
            THEN CloseBody([c2 EXCEPT !.err = DecodeError(o)])
            ELSE CloseBody([c2 EXCEPT
                              !.devices = Append2(o.Body.devices, o.Body.shared)])

\* Push, lines 110-112: data.Set writes into the caller's map, and a write into
\* the nil map panics
PushSet(deviceId, data) ==
  IF deviceId /= allDevicesId
  THEN IF data.nil
       THEN [panic |-> TRUE, data |-> data]
       ELSE [panic |-> FALSE, data |-> ValuesSet(data, KDeviceId, Itoa(deviceId))]
  ELSE [panic |-> FALSE, data |-> data]

\* PushFinish that takes every 2xx status for success
PushFinish_Any2xx(c0, o) ==
  IF ~o.ok THEN [c0 EXCEPT !.out = o, !.err = TransportError(o)]
  ELSE
    LET c1 == [c0 EXCEPT !.out = o, !.got = TRUE, !.statusChecked = TRUE] IN
    IF o.StatusCode < 200 \/ o.StatusCode > 299
    THEN CloseBody([c1 EXCEPT !.err = StatusError(o)])
    ELSE CloseBody(c1)

\* Push, lines 114-126: from c.Client.Do to the return
PushFinish(c0, o) ==
  IF ~o.ok THEN [c0 EXCEPT !.out = o, !.err = TransportError(o)]
  ELSE
    LET c1 == [c0 EXCEPT !.out = o, !.got = TRUE, !.statusChecked = TRUE] IN
    IF o.StatusCode /= StatusOK
    THEN CloseBody([c1 EXCEPT !.err = StatusError(o)])
    ELSE CloseBody(c1)

\* Client.Push: [call, data], data being the caller's map as Push leaves it
Push(k, deviceId, data, o) ==
  LET s == PushSet(deviceId, data) IN
  IF s.panic
  THEN [call |-> [Blank EXCEPT !.panic = "assignment to entry in nil map"],
        data |-> s.data]
  ELSE
    LET b == buildRequest(k, EpPushes, s.data) IN
    IF b.panic
    THEN [call |-> [Blank EXCEPT !.panic = "buildRequest"], data |-> s.data]
    ELSE [call |-> PushFinish([Blank EXCEPT !.sent = <<b.req>>], o),
          data |-> s.data]

\* Client.PushToAll
PushToAll(k, data, o) == Push(k, allDevicesId, data, o)

Str_type == << "t", "y", "p", "e" >>

Str_title == << "t", "i", "t", "l", "e" >>

Str_body == << "b", "o", "d", "y" >>

Str_name == << "n", "a", "m", "e" >>

Str_address == << "a", "d", "d", "r", "e", "s", "s" >>

Str_items == << "i", "t", "e", "m", "s" >>

Str_url == << "u", "r", "l" >>

Str_note == << "n", "o", "t", "e" >>

Str_list == << "l", "i", "s", "t" >>

Str_link == << "l", "i", "n", "k" >>

\* the map literal of PushNote
NoteData(title, body) ==
  MakeValues((Str_type :> <<Str_note>>) @@ (Str_title :> <<title>>)
               @@ (Str_body :> <<body>>))

\* the map literal of PushAddress
AddressData(name, address) ==
  MakeValues((Str_type :> <<Str_address>>) @@ (Str_name :> <<name>>)
               @@ (Str_address :> <<address>>))

\* the map literal of PushList
ListData(title, items) ==
  MakeValues((Str_type :> <<Str_list>>) @@ (Str_title :> <<title>>)
               @@ (Str_items :> items))

\* the map literal of PushLink
LinkData(title, u) ==
  MakeValues((Str_type :> <<Str_link>>) @@ (Str_title :> <<title>>)
               @@ (Str_url :> <<u>>))

PushNote(k, deviceId, title, body, o) == Push(k, deviceId, NoteData(title, body), o)

PushNoteToAll(k, title, body, o) == PushNote(k, allDevicesId, title, body, o)

PushAddress(k, deviceId, name, address, o) ==
  Push(k, deviceId, AddressData(name, address), o)

PushAddressToAll(k, name, address, o) == PushAddress(k, allDevicesId, name, address, o)

PushList(k, deviceId, title, items, o) == Push(k, deviceId, ListData(title, items), o)

PushListToAll(k, title, item, o) == PushList(k, allDevicesId, title, item, o)

PushLink(k, deviceId, title, u, o) == Push(k, deviceId, LinkData(title, u), o)

PushLinkToAll(k, title, u, o) == PushLink(k, allDevicesId, title, u, o)

(***************************************************************************)
(* The inputs the callers draw from.                                       *)
(***************************************************************************)
Keys ==
  { << "k", "1" >>,
    << "a", ":", "b" >>,
    << "p", "@", "/", "%", " " >> }

DeviceIds == {0, 7, 42}

Milk == << "m", "i", "l", "k" >>

Eggs == << "e", "g", "g", "s" >>

Texts == { << "t" >>, << "a", " ", "&", "=", "+" >> }

ItemLists == { <<>>, << Milk, Eggs >>, << Eggs, Milk >> }

\* a payload that already names a target
TargetedData ==
  MakeValues((Str_type :> <<Str_note>>) @@ (KDeviceId :> << <<"5">> >>))

\* a payload whose keys and values need escaping, with a key of two values and
\* a key of none
OddData ==
  MakeValues((<< "a", "&", "b" >> :> << << "c", "=", "d" >>, << "e", " ", "%" >> >>)
               @@ (<< "x" >> :> <<>>))

\* the maps a caller may hold when it starts
InitPayloads ==
  { NilValues, MakeValues(<<>>), NoteData(<< "t" >>, << "b" >>),
    ListData(<< "g" >>, << Milk, Eggs >>), TargetedData, OddData }

Refs == {"p", "q"}

Callers == {1, 2}

IdleLoc ==
  [op |-> "none", deviceId |-> 0, ref |-> "p", arg |-> NilValues,
   form |-> NilValues, alone |-> <<>>, call |-> Blank]

\* the record of a completed call: the operation, the device id and the map it
\* was given (arg), the map handed to buildRequest (form), and what happened
Rec(op, deviceId, arg, res) ==
  [op |-> op, deviceId |-> deviceId, arg |-> arg, form |-> res.data,
   call |-> res.call]

NoCall == Rec("none", 0, NilValues, [call |-> Blank, data |-> NilValues])

(***************************************************************************)
(* One caller at a time: each action is one whole call.                    *)
(***************************************************************************)
\* the caller holds one map of its choice under p and the nil map under q
Init ==
  /\ key \in Keys
  /\ heap \in [Refs -> InitPayloads]
  /\ heap["q"] = NilValues
  /\ last = NoCall
  /\ pc = <<>>
  /\ loc = <<>>

\* no call is under way (with one caller at a time pc and loc stay empty)
Idle == last.op = "none"

\* the caller has the call's result and goes on
Return ==
  /\ ~Idle
  /\ last' = NoCall
  /\ UNCHANGED <<key, heap, pc, loc>>

CallDevices ==
  /\ Idle
  /\ \E o \in DevicesOutcomes :
       last' = Rec("Devices", 0, NilValues,
                   [call |-> Devices(key, o), data |-> NilValues])
  /\ UNCHANGED <<key, heap, pc, loc>>

CallPush ==
  /\ Idle
  /\ \E d \in DeviceIds, r \in Refs, o \in PushOutcomes :
       LET res == Push(key, d, heap[r], o) IN
         /\ last' = Rec("Push", d, heap[r], res)
         /\ heap' = [heap EXCEPT ![r] = res.data]
  /\ UNCHANGED <<key, pc, loc>>

CallPushToAll ==
  /\ Idle
  /\ \E r \in Refs, o \in PushOutcomes :
       LET res == PushToAll(key, heap[r], o) IN
         /\ last' = Rec("PushToAll", allDevicesId, heap[r], res)
         /\ heap' = [heap EXCEPT ![r] = res.data]
  /\ UNCHANGED <<key, pc, loc>>

CallPushNote ==
  /\ Idle
  /\ \E d \in DeviceIds, t \in Texts, b \in Texts, o \in PushOutcomes :
       last' = Rec("PushNote", d, NoteData(t, b), PushNote(key, d, t, b, o))
  /\ UNCHANGED <<key, heap, pc, loc>>

CallPushNoteToAll ==
  /\ Idle
  /\ \E t \in Texts, b \in Texts, o \in PushOutcomes :
       last' = Rec("PushNoteToAll", allDevicesId, NoteData(t, b),
                   PushNoteToAll(key, t, b, o))
  /\ UNCHANGED <<key, heap, pc, loc>>

CallPushAddress ==
  /\ Idle
  /\ \E d \in DeviceIds, n \in Texts, a \in Texts, o \in PushOutcomes :
       last' = Rec("PushAddress", d, AddressData(n, a), PushAddress(key, d, n, a, o))
  /\ UNCHANGED <<key, heap, pc, loc>>

CallPushAddressToAll ==
  /\ Idle
  /\ \E n \in Texts, a \in Texts, o \in PushOutcomes :
       last' = Rec("PushAddressToAll", allDevicesId, AddressData(n, a),
                   PushAddressToAll(key, n, a, o))
  /\ UNCHANGED <<key, heap, pc, loc>>

CallPushList ==
  /\ Idle
  /\ \E d \in DeviceIds, t \in Texts, items \in ItemLists, o \in PushOutcomes :
       last' = Rec("PushList", d, ListData(t, items), PushList(key, d, t, items, o))
  /\ UNCHANGED <<key, heap, pc, loc>>

CallPushListToAll ==
  /\ Idle
  /\ \E t \in Texts, items \in ItemLists, o \in PushOutcomes :
       last' = Rec("PushListToAll", allDevicesId, ListData(t, items),
                   PushListToAll(key, t, items, o))
  /\ UNCHANGED <<key, heap, pc, loc>>

CallPushLink ==
  /\ Idle
  /\ \E d \in DeviceIds, t \in Texts, u \in Texts, o \in PushOutcomes :
       last' = Rec("PushLink", d, LinkData(t, u), PushLink(key, d, t, u, o))
  /\ UNCHANGED <<key, heap, pc, loc>>

CallPushLinkToAll ==
  /\ Idle
  /\ \E t \in Texts, u \in Texts, o \in PushOutcomes :
       last' = Rec("PushLinkToAll", allDevicesId, LinkData(t, u),
                   PushLinkToAll(key, t, u, o))
  /\ UNCHANGED <<key, heap, pc, loc>>

Next ==
  \/ CallDevices
  \/ CallPush
  \/ CallPushToAll
  \/ CallPushNote
  \/ CallPushNoteToAll
  \/ CallPushAddress
  \/ CallPushAddressToAll
  \/ CallPushList
  \/ CallPushListToAll
  \/ CallPushLink
  \/ CallPushLinkToAll
  \/ Return

Spec == Init /\ [][Next]_vars

(***************************************************************************)
(* The receiving side's reading of a form body (url.ParseQuery), used to    *)
(* say what a request body means.                                          *)
(***************************************************************************)
HexVal(c) ==
  IF Ord("0") <= Ord(c) /\ Ord(c) <= Ord("9") THEN Ord(c) - Ord("0")
  ELSE IF Ord("A") <= Ord(c) /\ Ord(c) <= Ord("F") THEN Ord(c) - Ord("A") + 10
  ELSE Ord(c) - Ord("a") + 10

RECURSIVE QueryUnescape(_)
QueryUnescape(s) ==
  IF s = <<>> THEN <<>>
  ELSE IF s[1] = "%" /\ Len(s) >= 3
    THEN <<Ascii[16 * HexVal(s[2]) + HexVal(s[3]) - 31]>>
           \o QueryUnescape(SubSeq(s, 4, Len(s)))
  ELSE IF s[1] = "+" THEN <<" ">> \o QueryUnescape(Tail(s))
  ELSE <<s[1]>> \o QueryUnescape(Tail(s))

\* the first position of c in s, or 0
IndexOf(s, c) ==
  IF \E i \in 1..Len(s) : s[i] = c
  THEN CHOOSE i \in 1..Len(s) : s[i] = c /\ \A j \in 1..(i - 1) : s[j] /= c
  ELSE 0

RECURSIVE ParseInto(_, _)
ParseInto(q, m) ==
  IF q = <<>> THEN m
  ELSE
    LET amp == IndexOf(q, "&")
        part == IF amp = 0 THEN q ELSE SubSeq(q, 1, amp - 1)
        rest == IF amp = 0 THEN <<>> ELSE SubSeq(q, amp + 1, Len(q))
        eq == IndexOf(part, "=")
        k == QueryUnescape(IF eq = 0 THEN part ELSE SubSeq(part, 1, eq - 1))
        v == QueryUnescape(IF eq = 0 THEN <<>> ELSE SubSeq(part, eq + 1, Len(part)))
    IN  IF part = <<>> THEN ParseInto(rest, m)
        ELSE ParseInto(rest,
               IF k \in DOMAIN m THEN [m EXCEPT ![k] = Append(@, v)]
               ELSE (k :> <<v>>) @@ m)

ParseQuery(q) == ParseInto(q, <<>>)

\* a map without the keys that have no value: its key/value pairs
Pairs(m) == [k \in {x \in DOMAIN m : m[x] /= <<>>} |-> m[k]]

(***************************************************************************)
(* Properties of the calls.                                                *)
(***************************************************************************)
PushOps ==
  { "Push", "PushToAll", "PushNote", "PushNoteToAll", "PushAddress",
    "PushAddressToAll", "PushList", "PushListToAll", "PushLink", "PushLinkToAll" }

IsPush == last.op \in PushOps

SentOne == Len(last.call.sent) = 1

Request == last.call.sent[1]

\* the form fields the request's body carries
SentForm == ParseQuery(Request.Body.bytes)

Drained == last.call.read = "eof" \/ last.call.out.Body.kind = "empty"

Is2xx(code) == 200 <= code /\ code <= 299

\* C1: a Push with deviceId 0 sends a body with no device_id field, and a Push
\* with another deviceId sends a body whose only device_id value is the
\* decimal string of deviceId, whatever the payload held before.
C1_TargetFollowsDeviceId ==
  (IsPush /\ SentOne) =>
    IF last.deviceId = allDevicesId
    THEN KDeviceId \notin DOMAIN SentForm
    ELSE KDeviceId \in DOMAIN SentForm /\ SentForm[KDeviceId] = <<Itoa(last.deviceId)>>

\* C2: every request carries Authorization = "Basic " + base64(key + ":"),
\* the key taken byte for byte.
C2_AuthorizationOfRawKey ==
  SentOne =>
    Request.Header["Authorization"] =
      << "B", "a", "s", "i", "c", " " >> \o EncodeToString(key \o <<":">>)

\* C3 as stated: once a response is received the call fails, with the status
\* text, exactly when the status code is outside 200..299, and a Push that
\* gets a 2xx status returns no error.
C3_FailsIffNot2xx ==
  (last.op /= "none" /\ last.call.got) =>
    /\ (last.call.err.kind = "status") <=> ~Is2xx(last.call.out.StatusCode)
    /\ (IsPush /\ Is2xx(last.call.out.StatusCode)) => last.call.err = NoError

\* C3 amended: once a response is received the call fails with an error made
\* of the response's status text exactly when the status code is not 200
\* (201 and 204 fail too); a Push that gets 200 returns no error and has read
\* nothing of the body; a Devices call that gets 200 never fails with a
\* status error.
C3_FailsIffNot200 ==
  (last.op /= "none" /\ last.call.got) =>
    /\ (last.call.err.kind = "status") <=> (last.call.out.StatusCode /= 200)
    /\ (last.call.err.kind = "status") =>
         last.call.err.text = last.call.out.Status
    /\ (IsPush /\ last.call.out.StatusCode = 200) =>
         (last.call.err = NoError /\ last.call.read = "none")

\* C3 witness: a Push answered 201 Created has failed with that status text.
C3_Witness ==
  /\ last.op = "Push"
  /\ last.call.got
  /\ last.call.out.StatusCode = 201
  /\ last.call.err = [kind |-> "status", text |-> "201 Created"]

\* C4: on status 200 with a devices document of owned list D and shared list
\* S, Devices returns no error and D followed by S, nothing dropped.
C4_OwnedThenShared ==
  (/\ last.op = "Devices"
   /\ last.call.got
   /\ last.call.out.StatusCode = StatusOK
   /\ last.call.out.Body.kind = "json") =>
    /\ last.call.err = NoError
    /\ last.call.devices.items =
         last.call.out.Body.devices.items \o last.call.out.Body.shared.items
    /\ Len(last.call.devices.items) =
         Len(last.call.out.Body.devices.items) + Len(last.call.out.Body.shared.items)

\* C4 witness: owned <<2, 1>> and shared <<1>> came back as <<2, 1, 1>>.
C4_Witness ==
  /\ last.op = "Devices"
  /\ last.call.err = NoError
  /\ last.call.out.Body.devices.items = <<2, 1>>
  /\ last.call.out.Body.shared.items = <<1>>
  /\ last.call.devices.items = <<2, 1, 1>>

\* C5: when the transport fails the call returns the transport's error as it
\* is, checks no status, decodes nothing and has sent one request only; and
\* Devices never returns a list beside an error.
C5_TransportErrorPassedOn ==
  /\ (last.op /= "none" /\ SentOne /\ ~last.call.out.ok) =>
       /\ last.call.err = [kind |-> "transport", text |-> last.call.out.err]
       /\ ~last.call.statusChecked
       /\ ~last.call.decoded
       /\ last.call.closes = 0
  /\ Len(last.call.sent) <= 1
  /\ (last.op = "Devices" /\ last.call.err /= NoError) => last.call.devices.nil

\* C5 witness: a Devices call whose transport refused the connection.
C5_Witness ==
  /\ last.op = "Devices"
  /\ SentOne
  /\ ~last.call.out.ok
  /\ last.call.err.text = "dial tcp: connection refused"
  /\ last.call.devices.nil

\* C6: every Push sends exactly one request, a POST to HOST/pushes with a
\* form body.
C6_PushPostsOnce ==
  IsPush =>
    /\ SentOne
    /\ Request.Method = "POST"
    /\ Request.URL = HOST \o EpPushes
    /\ Request.Body.present

\* C7: buildRequest without form data gives a GET with no body; with form data
\* (an empty map too) a POST with the form content type whose body reads back
\* as the same key/value pairs, a key's values in their order.
C7_FormRoundTrip ==
  SentOne =>
    IF last.form.nil
    THEN /\ Request.Method = "GET"
         /\ Request.Body = NoBody
         /\ "Content-Type" \notin DOMAIN Request.Header
    ELSE /\ Request.Method = "POST"
         /\ Request.Header["Content-Type"] = FormContentType
         /\ Request.Body.present
         /\ SentForm = Pairs(last.form.m)

\* C7 witness: PushList to device 7 with items milk, eggs, and a title that
\* needs escaping, read back with both items in that order.
C7_Witness ==
  /\ last.op = "PushList"
  /\ last.deviceId = 7
  /\ SentOne
  /\ last.form.m[Str_title] = << << "a", " ", "&", "=", "+" >> >>
  /\ last.form.m[Str_items] = << Milk, Eggs >>
  /\ SentForm[Str_items] = << Milk, Eggs >>
  /\ SentForm[Str_type] = << Str_list >>
  /\ SentForm[KDeviceId] = << << "7" >> >>

\* C9: every call returns to its caller; nothing panics but buildRequest on a
\* malformed URL.
C9_NoPanicButBuildRequest == last.call.panic \in {"none", "buildRequest"}

\* C10 as stated: a received response's body is drained and closed exactly
\* once by the time the call returns; after a transport failure none is.
C10_DrainedAndClosedOnce ==
  last.op /= "none" =>
    /\ last.call.got => (last.call.closes = 1 /\ Drained)
    /\ ~last.call.got => last.call.closes = 0

\* C10 amended: a received response's body is closed exactly once on every
\* exit path (success, status error, decode error), and never when the
\* transport fails; it is not drained: Push reads nothing of it.
C10_ClosedOnce ==
  last.op /= "none" =>
    /\ last.call.got => last.call.closes = 1
    /\ ~last.call.got => last.call.closes = 0
    /\ IsPush => last.call.read = "none"

\* C10 witness: Devices got 200 with a body that is no JSON, failed to decode
\* it, and closed the body once.
C10_Witness ==
  /\ last.op = "Devices"
  /\ last.call.got
  /\ last.call.err.kind = "decode"
  /\ last.call.out.Body.kind = "garbage"
  /\ last.call.closes = 1

(***************************************************************************)
(* Two callers on one Client, each call taken statement by statement.  No   *)
(* statement of Devices or Push synchronises with another caller, so the    *)
(* statements of two calls interleave freely.                              *)
(***************************************************************************)
ConcOutcomes ==
  { Failure("dial tcp: connection refused"), Response(200, OneJsonBody),
    Response(401, BodyEmpty) }

InitConc ==
  /\ key = << "k", "1" >>
  /\ heap \in [Refs -> {NoteData(<< "t" >>, << "b" >>), TargetedData, NilValues}]
  /\ last = NoCall
  /\ pc = [c \in Callers |-> "idle"]
  /\ loc = [c \in Callers |-> IdleLoc]

\* the request the call sends when no other call runs beside it
AloneRequest(d, data) ==
  LET s == PushSet(d, data) IN
    IF s.panic THEN <<>> ELSE <<buildRequest(key, EpPushes, s.data).req>>

\* caller c enters Devices: line 85
DevicesEnter(c) ==
  /\ pc[c] = "idle"
  /\ pc' = [pc EXCEPT ![c] = "do"]
  /\ loc' = [loc EXCEPT ![c] =
       [IdleLoc EXCEPT !.op = "Devices",
                       !.alone = <<buildRequest(key, EpDevices, NilValues).req>>,
                       !.call.sent = <<buildRequest(key, EpDevices, NilValues).req>>]]
  /\ UNCHANGED <<key, heap, last>>

\* caller c in Devices: lines 86-105
DevicesDo(c) ==
  /\ pc[c] = "do" /\ loc[c].op = "Devices"
  /\ \E o \in ConcOutcomes : loc' = [loc EXCEPT ![c].call = Devices(key, o)]
  /\ pc' = [pc EXCEPT ![c] = "done"]
  /\ UNCHANGED <<key, heap, last>>

\* caller c enters Push with the map r names
PushEnter(c) ==
  /\ pc[c] = "idle"
  /\ \E d \in DeviceIds, r \in Refs :
       loc' = [loc EXCEPT ![c] =
         [IdleLoc EXCEPT !.op = "Push", !.deviceId = d, !.ref = r,
                         !.arg = heap[r], !.alone = AloneRequest(d, heap[r])]]
  /\ pc' = [pc EXCEPT ![c] = "set"]
  /\ UNCHANGED <<key, heap, last>>

\* caller c in Push: lines 110-112
PushDoSet(c) ==
  /\ pc[c] = "set"
  /\ LET s == PushSet(loc[c].deviceId, heap[loc[c].ref]) IN
       /\ heap' = [heap EXCEPT ![loc[c].ref] = s.data]
       /\ IF s.panic
          THEN /\ pc' = [pc EXCEPT ![c] = "done"]
               /\ loc' = [loc EXCEPT ![c].call.panic = "assignment to entry in nil map"]
          ELSE /\ pc' = [pc EXCEPT ![c] = "build"]
               /\ UNCHANGED loc
  /\ UNCHANGED <<key, last>>

\* caller c in Push: line 113, buildRequest reads the map as it is now
PushBuild(c) ==
  /\ pc[c] = "build"
  /\ LET b == buildRequest(key, EpPushes, heap[loc[c].ref]) IN
       IF b.panic
       THEN /\ pc' = [pc EXCEPT ![c] = "done"]
            /\ loc' = [loc EXCEPT ![c].call.panic = "buildRequest"]
       ELSE /\ pc' = [pc EXCEPT ![c] = "do"]
            /\ loc' = [loc EXCEPT ![c].form = heap[loc[c].ref],
                                  ![c].call.sent = <<b.req>>]
  /\ UNCHANGED <<key, heap, last>>

\* caller c in Push: lines 114-126
PushDo(c) ==
  /\ pc[c] = "do" /\ loc[c].op = "Push"
  /\ \E o \in ConcOutcomes : loc' = [loc EXCEPT ![c].call = PushFinish(@, o)]
  /\ pc' = [pc EXCEPT ![c] = "done"]
  /\ UNCHANGED <<key, heap, last>>

\* caller c has its result
ReturnConc(c) ==
  /\ pc[c] = "done"
  /\ pc' = [pc EXCEPT ![c] = "idle"]
  /\ loc' = [loc EXCEPT ![c] = IdleLoc]
  /\ UNCHANGED <<key, heap, last>>

\* caller c is in Push and has yet to read or write its map
Pending(c) == pc[c] \in {"set", "build"} /\ ~heap[loc[c].ref].nil

\* caller c is about to write its map
Writing(c) == pc[c] = "set" /\ loc[c].deviceId /= allDevicesId /\ ~heap[loc[c].ref].nil

\* two calls in flight reach one map with no order between them, one writing
Race ==
  \E c1, c2 \in Callers :
    c1 /= c2 /\ loc[c1].ref = loc[c2].ref /\ Writing(c1) /\ Pending(c2)

\* the runtime may stop the program on unordered map accesses
\* ("fatal error: concurrent map writes")
Fatal ==
  /\ Race
  /\ pc' = [c \in Callers |-> "fatal"]
  /\ UNCHANGED <<key, heap, last, loc>>

NextConc ==
  \/ \E c \in Callers : DevicesEnter(c)
  \/ \E c \in Callers : DevicesDo(c)
  \/ \E c \in Callers : PushEnter(c)
  \/ \E c \in Callers : PushDoSet(c)
  \/ \E c \in Callers : PushBuild(c)
  \/ \E c \in Callers : PushDo(c)
  \/ \E c \in Callers : ReturnConc(c)
  \/ Fatal

SpecConc == InitConc /\ [][NextConc]_vars

\* C8: concurrent Devices and Push calls on one Client do not disturb one
\* another: whatever the interleaving, each call sends the request it sends
\* when run alone (as it must if no call writes what another reads).
C8_CallsIndependent ==
  \A c \in Callers :
    (pc[c] \in {"do", "done"} /\ loc[c].call.panic = "none") =>
      loc[c].call.sent = loc[c].alone

=============================================================================
